---- MODULE Spec2Model ----
(***************************************************************************)
(* Model of assemblyline_v4_service/common/result.py (Heuristic,           *)
(* ResultSection, Result) and assemblyline_v4_service/common/task.py       *)
(* (Task).  Every operation of the Python classes is one action; a raised  *)
(* exception is recorded in `last.raised` together with whatever the       *)
(* handler had already mutated when it was raised.                         *)
(***************************************************************************)
EXTENDS Integers, Sequences, FiniteSets, TLC

\* ---------------------------------------------------------------- bounds
MaxNodes == 4       \* ResultSection objects created in one run
MaxFreq == 2        \* largest frequency argument / per-call increment
MaxCalls == 3       \* mutating calls made on one Heuristic after construction
MaxFiles == 2       \* add_extracted / add_supplementary calls in one run

\* ------------------------------------------------------------- constants
None == "None"
ResultAggregationException == "ResultAggregationException"
InvalidHeuristicException == "InvalidHeuristicException"
InvalidClassification == "InvalidClassification"
TypeError == "TypeError"
FileNotFoundError == "FileNotFoundError"

Nodes == 1..MaxNodes

\* ------------------------------------------- collaborators (result.py)
\* Classification labels: two valid levels and one string the classification
\* engine cannot parse.
ValidLabels == {"U", "R"}
InvalidLabel == "??"
Labels == ValidLabels \cup {InvalidLabel}
LevelOf == [U |-> 0, R |-> 1]

default_result_classification == "U"

\* Classification.max_classification(c1, c2): the higher of two labels, or
\* InvalidClassification when one of them is not a label of the scheme.
MaxClassification(c1, c2) ==
    IF c1 \notin ValidLabels \/ c2 \notin ValidLabels
    THEN InvalidClassification
    ELSE IF LevelOf[c1] >= LevelOf[c2] THEN c1 ELSE c2

\* c1 is at least as high as c2 in the classification ordering
ClassGeq(c1, c2) ==
    /\ c1 \in ValidLabels
    /\ c2 \in ValidLabels
    /\ LevelOf[c1] >= LevelOf[c2]

\* The attack-technique catalog.
attack_map == {"T1001", "T1002"}
BadAttackId == "T9999"

SigNames == {"sigA", "sigB"}

\* The service manifest: heur_id -> definition.
HeurIds == {1, 2, 3}
BadHeurId == 99
HEUR_LIST ==
    [h \in HeurIds |->
        CASE h = 1 -> [score |-> 10, attack_id |-> <<>>,
                       signature_score_map |-> [s \in {"sigA"} |-> 7]]
          [] h = 2 -> [score |-> 5, attack_id |-> <<"T1001">>,
                       signature_score_map |-> [s \in {} |-> 0]]
          [] h = 3 -> [score |-> 3, attack_id |-> <<"T1002">>,
                       signature_score_map |-> [s \in {"sigB"} |-> 1]]]

\* ------------------------------------------------------------ utilities
RECURSIVE SetSum(_, _)
SetSum(f, S) ==
    IF S = {} THEN 0
    ELSE LET x == CHOOSE y \in S : TRUE
         IN f[x] + SetSum(f, S \ {x})

InList(x, s) == \E i \in 1..Len(s) : s[i] = x

\* list.remove(x): drops the first occurrence
RemoveFirst(s, x) ==
    LET i == CHOOSE k \in 1..Len(s) : s[k] = x /\ \A j \in 1..(k-1) : s[j] # x
    IN SubSeq(s, 1, i-1) \o SubSeq(s, i+1, Len(s))

NoDuplicates(s) == \A i, j \in 1..Len(s) : s[i] = s[j] => i = j

\* ------------------------------------------------------------- Heuristic
\* An optional Heuristic is a record whose `kind` says what the Python value
\* is: "None", a "Heuristic" object, or (constructor argument only) some
\* other object ("junk").
NoHeuristic ==
    [kind |-> "None", heur_id |-> 0, attack_ids |-> <<>>,
     signatures |-> [s \in {} |-> 0], frequency |-> 0, score |-> 0]
JunkHeuristic == [NoHeuristic EXCEPT !.kind = "junk"]

\* truthiness of an optional string argument (None and "" are falsy)
Truthy(s) == s # None /\ s # ""

\* a signature score that never looks at the per-signature overrides
SignatureScoreBase(definition, sig_name, freq) == definition.score * freq

\* score contribution of one signature (lines 103-106 / 124-127)
SignatureScore(definition, sig_name, freq) ==
    IF sig_name \in DOMAIN definition.signature_score_map
    THEN definition.signature_score_map[sig_name] * freq
    ELSE definition.score * freq

\* dict.setdefault(sig, 0) followed by += n
BumpSignature(signatures, sig, n) ==
    [s \in (DOMAIN signatures) \cup {sig} |->
        IF s = sig
        THEN (IF sig \in DOMAIN signatures THEN signatures[sig] ELSE 0) + n
        ELSE signatures[s]]

\* lines 82-86: keep the ids the catalog knows, in order
ValidateAttackIds(ids) == SelectSeq(ids, LAMBDA a : a \in attack_map)

\* Heuristic.__init__ for a heur_id of the manifest.  attack_ids = <<>> and
\* signatures = the empty map stand for the None defaults (lines 71, 89).
HeuristicInit(heur_id, attack_id, signature, attack_ids, signatures, frequency) ==
    LET definition == HEUR_LIST[heur_id]
        ids1 == IF Truthy(attack_id) THEN Append(attack_ids, attack_id) ELSE attack_ids
        ids2 == IF ids1 = <<>> /\ definition.attack_id # <<>>
                THEN ids1 \o definition.attack_id ELSE ids1
        sigs == IF Truthy(signature) THEN BumpSignature(signatures, signature, 1)
                ELSE signatures
        noSigs == DOMAIN sigs = {}
        sigScore == [s \in DOMAIN sigs |-> SignatureScore(definition, s, sigs[s])]
    IN [kind |-> "Heuristic",
        heur_id |-> heur_id,
        attack_ids |-> ValidateAttackIds(ids2),
        signatures |-> sigs,
        frequency |-> IF noSigs THEN frequency ELSE 0,
        score |-> (IF noSigs THEN definition.score * frequency ELSE 0)
                  + SetSum(sigScore, DOMAIN sigs)]

\* Heuristic(heur_id) with every other argument left at its default
NoSignatures == [s \in {} |-> 0]
PlainHeuristic(heur_id) == HeuristicInit(heur_id, None, None, <<>>, NoSignatures, 1)

\* Heuristic.add_attack_id
HeuristicAddAttackId(h, attack_id) ==
    IF attack_id \notin attack_map THEN h
    ELSE IF ~InList(attack_id, h.attack_ids)
         THEN [h EXCEPT !.attack_ids = Append(@, attack_id)]
         ELSE h

\* Heuristic.add_signature_id
HeuristicAddSignatureId(h, signature, frequency) ==
    [h EXCEPT !.signatures = BumpSignature(@, signature, frequency),
              !.score = @ + SignatureScore(HEUR_LIST[h.heur_id], signature, frequency)]

\* Heuristic.increment_frequency
HeuristicIncrementFrequency(h, frequency) ==
    [h EXCEPT !.frequency = @ + frequency,
              !.score = @ + HEUR_LIST[h.heur_id].score * frequency]

\* get_heuristic_primitives: None stays None, a Heuristic becomes a dict
get_heuristic_primitives(h) ==
    IF h.kind = "None" THEN NoHeuristic
    ELSE [kind |-> "dict", heur_id |-> h.heur_id, score |-> h.score,
          attack_ids |-> h.attack_ids, signatures |-> h.signatures,
          frequency |-> h.frequency]

\* ------------------------------------------------------------------ state
VARIABLES
    \* ResultSection objects 1..nsec, by field
    nsec,                  \* number of ResultSection objects constructed
    parent,                \* section -> NoParent | ResultParent | section
    subsections,           \* section -> list of sections
    classification,        \* section -> label
    init_classification,   \* section -> label given at construction (history)
    heuristic,             \* section -> optional Heuristic
    _finalized,            \* section -> BOOLEAN
    depth,                 \* section -> Nat
    \* the Result object
    sections,              \* Result.sections
    _flattened_sections,   \* Result._flattened_sections
    _score,                \* Result._score
    result,                \* what Result.finalize last returned
    \* a Heuristic object on its own
    heur,
    ncalls,                \* mutating calls made on heur so far
    \* the Task object and the file system it works on
    _working_directory,
    fs,                    \* path -> content | Absent
    extracted,
    supplementary,
    error_message,
    error_status,
    \* the last call: [op, target, arg, raised]
    last

treeVars == <<nsec, parent, subsections, classification, init_classification,
              heuristic, _finalized, depth, sections, _flattened_sections,
              _score, result>>
heurVars == <<heur, ncalls>>
taskVars == <<_working_directory, fs, extracted, supplementary,
              error_message, error_status>>
vars == <<treeVars, heurVars, taskVars, last>>

\* ---------------------------------------------------------- ResultSection
NoParent == 0
ResultParent == -1

Call(op, target, arg, raised) ==
    [op |-> op, target |-> target, arg |-> arg, raised |-> raised]

\* a finalize that forgets the double-finalize test
AlreadyFinalizedNever(fin, n) == FALSE

\* ResultSection.finalize, line 222: the double-finalize test
AlreadyFinalized(fin, n) == fin[n]

\* ResultSection.finalize, line 232: `subsection in self.subsections`
StillSubsection(sub, subs) == InList(sub, subs)

\* a merge that hands the section's classification to the parent without
\* comparing the two
MergeIntoParentOverwrite(st, n) ==
    IF st.par[n] # NoParent /\ st.par[n] # ResultParent
    THEN LET m == MaxClassification(st.cls[n], st.cls[st.par[n]])
         IN IF m = InvalidClassification
            THEN [st EXCEPT !.keep = FALSE]
            ELSE [st EXCEPT !.cls[st.par[n]] = st.cls[n], !.keep = TRUE]
    ELSE [st EXCEPT !.keep = TRUE]

\* ResultSection.finalize, lines 237-243, on the finalize state st:
\* raise the parent's classification, or give up this section
MergeIntoParent(st, n) ==
    IF st.par[n] # NoParent /\ st.par[n] # ResultParent
    THEN LET m == MaxClassification(st.cls[n], st.cls[st.par[n]])
         IN IF m = InvalidClassification
            THEN [st EXCEPT !.keep = FALSE]
            ELSE [st EXCEPT !.cls[st.par[n]] = m, !.keep = TRUE]
    ELSE [st EXCEPT !.keep = TRUE]

\* ResultSection.finalize(depth=d) on section n.  st carries the fields the
\* recursion touches: fin, dep, cls, subs, par, plus `raised` (the exception
\* in flight, None if none) and `keep` (the value returned).
RECURSIVE SectionFinalize(_, _, _), FinalizeSubsections(_, _, _, _, _)
RECURSIVE FinalizeSubsectionsSameDepth(_, _, _, _, _)
SectionFinalize(st, n, d) ==
    IF AlreadyFinalized(st.fin, n)
    THEN [st EXCEPT !.raised = ResultAggregationException]
    ELSE LET s1 == [st EXCEPT !.fin[n] = TRUE, !.dep[n] = d]
             r == FinalizeSubsections(s1, n, 1, <<>>, d)
         IN IF r.st.raised # None
            THEN r.st
            ELSE MergeIntoParent([r.st EXCEPT !.subs[n] = r.tmp_subs], n)

\* a loop that finalizes the subsections at the depth of their parent
FinalizeSubsectionsSameDepth(st, n, i, tmp_subs, d) ==
    IF i > Len(st.subs[n])
    THEN [st |-> st, tmp_subs |-> tmp_subs]
    ELSE LET sub == st.subs[n][i]
             s2 == SectionFinalize(st, sub, d)
         IN IF s2.raised # None
            THEN [st |-> s2, tmp_subs |-> tmp_subs]
            ELSE FinalizeSubsectionsSameDepth(s2, n, i + 1,
                    IF StillSubsection(sub, s2.subs[n])
                    THEN Append(tmp_subs, sub) ELSE tmp_subs, d)

\* the loop of lines 229-233 from index i on, tmp_subs collected so far
FinalizeSubsections(st, n, i, tmp_subs, d) ==
    IF i > Len(st.subs[n])
    THEN [st |-> st, tmp_subs |-> tmp_subs]
    ELSE LET sub == st.subs[n][i]
             s2 == SectionFinalize(st, sub, d + 1)
         IN IF s2.raised # None
            THEN [st |-> s2, tmp_subs |-> tmp_subs]
            ELSE FinalizeSubsections(s2, n, i + 1,
                    IF StillSubsection(sub, s2.subs[n])
                    THEN Append(tmp_subs, sub) ELSE tmp_subs, d)

FinalizeState ==
    [fin |-> _finalized, dep |-> depth, cls |-> classification,
     subs |-> subsections, par |-> parent, raised |-> None, keep |-> TRUE]

\* a set_heuristic that forgets to look for an existing heuristic
HasHeuristicNever(h) == FALSE

\* ResultSection.set_heuristic, line 261: `if self.heuristic`
HasHeuristic(h) == h.kind # "None"

\* ----------------------------------------------------------------- Result
\* Result._append_section: the flat record of section n
SectionRecord(n, cls, dep, heu) ==
    [title_text |-> n, classification |-> cls[n], depth |-> dep[n],
     heuristic |-> get_heuristic_primitives(heu[n])]

\* Result._flatten_sections(section, root) appended to flat
RECURSIVE FlattenSections(_, _, _, _, _, _, _), FlattenSubsections(_, _, _, _, _, _, _)
RECURSIVE FlattenSectionsAlways(_, _, _, _, _, _, _)

\* a flattening that appends the section whether or not it is the root of
\* the recursion
FlattenSectionsAlways(flat, n, root, subs, cls, dep, heu) ==
    IF Len(subs[n]) > 0
    THEN FlattenSubsections(Append(flat, SectionRecord(n, cls, dep, heu)),
                            n, 1, subs, cls, dep, heu)
    ELSE Append(flat, SectionRecord(n, cls, dep, heu))

FlattenSections(flat, n, root, subs, cls, dep, heu) ==
    IF Len(subs[n]) > 0
    THEN FlattenSubsections(
            IF root THEN Append(flat, SectionRecord(n, cls, dep, heu)) ELSE flat,
            n, 1, subs, cls, dep, heu)
    ELSE Append(flat, SectionRecord(n, cls, dep, heu))

\* the loop of lines 290-293 from index i on
FlattenSubsections(flat, n, i, subs, cls, dep, heu) ==
    IF i > Len(subs[n]) THEN flat
    ELSE LET sub == subs[n][i]
             f1 == Append(flat, SectionRecord(sub, cls, dep, heu))
             f2 == IF Len(subs[sub]) > 0
                   THEN FlattenSections(f1, sub, FALSE, subs, cls, dep, heu)
                   ELSE f1
         IN FlattenSubsections(f2, n, i + 1, subs, cls, dep, heu)

\* Result.finalize, lines 322-323
RECURSIVE FlattenAll(_, _, _, _, _, _, _)
FlattenAll(flat, secs, i, subs, cls, dep, heu) ==
    IF i > Len(secs) THEN flat
    ELSE FlattenAll(FlattenSections(flat, secs[i], TRUE, subs, cls, dep, heu),
                    secs, i + 1, subs, cls, dep, heu)

\* Result.finalize, lines 326-327: `if heuristic` on a record's heuristic
RecordHasHeuristic(rec) == rec.heuristic.kind # "None"

RECURSIVE AccumulateScore(_, _, _), AccumulateScoreTopLevel(_, _, _)

\* a score loop that only looks at the records of top-level sections
AccumulateScoreTopLevel(score, flat, i) ==
    IF i > Len(flat) THEN score
    ELSE AccumulateScoreTopLevel(
            IF RecordHasHeuristic(flat[i]) /\ flat[i].depth = 0
            THEN score + flat[i].heuristic.score
            ELSE score,
            flat, i + 1)

\* Result.finalize, lines 325-328: score after the records from index i on
AccumulateScore(score, flat, i) ==
    IF i > Len(flat) THEN score
    ELSE AccumulateScore(
            IF RecordHasHeuristic(flat[i]) THEN score + flat[i].heuristic.score
            ELSE score,
            flat, i + 1)

\* Result.finalize, lines 312-315 from index i on: [st, to_delete_sections]
RECURSIVE FinalizeTopLevel(_, _, _, _)
FinalizeTopLevel(st, secs, i, to_delete) ==
    IF i > Len(secs)
    THEN [st |-> st, to_delete |-> to_delete]
    ELSE LET s1 == SectionFinalize([st EXCEPT !.par[secs[i]] = ResultParent],
                                   secs[i], 0)
         IN IF s1.raised # None
            THEN [st |-> s1, to_delete |-> to_delete]
            ELSE FinalizeTopLevel(s1, secs, i + 1,
                    IF ~s1.keep THEN Append(to_delete, secs[i]) ELSE to_delete)

\* Result.finalize, lines 318-319
RECURSIVE RemoveAll(_, _, _)
RemoveAll(secs, to_delete, i) ==
    IF i > Len(to_delete) THEN secs
    ELSE RemoveAll(RemoveFirst(secs, to_delete[i]), to_delete, i + 1)

\* ------------------------------------------------- ResultSection actions
AnyParent == {NoParent, ResultParent} \cup (1..nsec)
AttachedParent == {ResultParent} \cup (1..nsec)
TopLevelParent == {ResultParent}

RECURSIVE Descendants(_, _)
Descendants(subs, n) ==
    UNION {{subs[n][i]} \cup Descendants(subs, subs[n][i]) : i \in 1..Len(subs[n])}

Unattached(n) == parent[n] = NoParent /\ ~InList(n, sections)

\* list.insert(0, x) when on_top, list.append(x) otherwise
AddToList(s, x, on_top) == IF on_top THEN <<x>> \o s ELSE Append(s, x)

\* ResultSection.__init__ with classification, heuristic and parent drawn
\* from the given sets (None stands for an omitted classification)
NewSection(classes, heuristics, parents) ==
    /\ nsec < MaxNodes
    /\ \E c \in classes, h \in heuristics, p \in parents :
        LET n == nsec + 1
            cls == IF c = None THEN default_result_classification ELSE c
        IN /\ nsec' = n
           /\ classification' = [classification EXCEPT ![n] = cls]
           /\ init_classification' = [init_classification EXCEPT ![n] = cls]
           /\ heuristic' = [heuristic EXCEPT
                               ![n] = IF h.kind = "Heuristic" THEN h ELSE NoHeuristic]
           /\ parent' = [parent EXCEPT ![n] = p]
           /\ subsections' = IF p \in 1..nsec
                             THEN [subsections EXCEPT ![p] = Append(@, n)]
                             ELSE subsections
           /\ sections' = IF p = ResultParent THEN Append(sections, n) ELSE sections
           /\ last' = Call("ResultSection", n, p, None)
    /\ UNCHANGED <<_finalized, depth, _flattened_sections, _score, result>>
    /\ UNCHANGED <<heurVars, taskVars>>

\* ResultSection.add_subsection(subsection, on_top) on a section that is not
\* yet part of any tree
AddSubsection ==
    /\ \E p \in 1..nsec, c \in 1..nsec, on_top \in BOOLEAN :
        /\ Unattached(c)
        /\ p # c
        /\ p \notin Descendants(subsections, c)
        /\ subsections' = [subsections EXCEPT ![p] = AddToList(@, c, on_top)]
        /\ parent' = [parent EXCEPT ![c] = p]
        /\ last' = Call("add_subsection", c, p, None)
    /\ UNCHANGED <<nsec, classification, init_classification, heuristic, _finalized,
                   depth, sections, _flattened_sections, _score, result>>
    /\ UNCHANGED <<heurVars, taskVars>>

\* Result.add_section(section, on_top) on a section that is not yet part of
\* any tree
AddSection ==
    /\ \E c \in 1..nsec, on_top \in BOOLEAN :
        /\ Unattached(c)
        /\ sections' = AddToList(sections, c, on_top)
        /\ last' = Call("add_section", c, ResultParent, None)
    /\ UNCHANGED <<nsec, parent, subsections, classification, init_classification,
                   heuristic, _finalized, depth, _flattened_sections, _score, result>>
    /\ UNCHANGED <<heurVars, taskVars>>

\* ResultSection.set_heuristic(heur_id, attack_id, signature)
SetHeuristic(ids, attack_ids, signatures) ==
    /\ \E n \in 1..nsec, heur_id \in ids, attack_id \in attack_ids,
          signature \in signatures :
        IF HasHeuristic(heuristic[n])
        THEN /\ last' = Call("set_heuristic", n, heur_id, InvalidHeuristicException)
             /\ UNCHANGED heuristic
        ELSE IF heur_id \notin DOMAIN HEUR_LIST
        THEN /\ last' = Call("set_heuristic", n, heur_id, InvalidHeuristicException)
             /\ UNCHANGED heuristic
        ELSE /\ heuristic' = [heuristic EXCEPT
                                 ![n] = HeuristicInit(heur_id, attack_id, signature,
                                                      <<>>, NoSignatures, 1)]
             /\ last' = Call("set_heuristic", n, heur_id, None)
    /\ UNCHANGED <<nsec, parent, subsections, classification, init_classification,
                   _finalized, depth, sections, _flattened_sections, _score, result>>
    /\ UNCHANGED <<heurVars, taskVars>>

\* a direct call of ResultSection.finalize() (depth defaults to 0)
SectionFinalizeCall ==
    /\ \E n \in 1..nsec :
        LET st == SectionFinalize(FinalizeState, n, 0)
        IN /\ _finalized' = st.fin
           /\ depth' = st.dep
           /\ classification' = st.cls
           /\ subsections' = st.subs
           /\ parent' = st.par
           /\ last' = Call("ResultSection.finalize", n, 0, st.raised)
    /\ UNCHANGED <<nsec, init_classification, heuristic, sections,
                   _flattened_sections, _score, result>>
    /\ UNCHANGED <<heurVars, taskVars>>

\* Result.finalize()
ResultFinalize ==
    /\ LET r == FinalizeTopLevel(FinalizeState, sections, 1, <<>>)
           st == r.st
       IN /\ _finalized' = st.fin
          /\ depth' = st.dep
          /\ classification' = st.cls
          /\ subsections' = st.subs
          /\ parent' = st.par
          /\ last' = Call("Result.finalize", 0, 0, st.raised)
          /\ IF st.raised # None
             THEN UNCHANGED <<sections, _flattened_sections, _score, result>>
             ELSE LET secs == RemoveAll(sections, r.to_delete, 1)
                      flat == FlattenAll(_flattened_sections, secs, 1,
                                         st.subs, st.cls, st.dep, heuristic)
                      sc == AccumulateScore(_score, flat, 1)
                  IN /\ sections' = secs
                     /\ _flattened_sections' = flat
                     /\ _score' = sc
                     /\ result' = [returned |-> TRUE, score |-> sc, sections |-> flat]
    /\ UNCHANGED <<nsec, init_classification, heuristic>>
    /\ UNCHANGED <<heurVars, taskVars>>

\* ------------------------------------------------------ Heuristic actions
AttackIdArgs == attack_map \cup {BadAttackId}
AttackIdLists ==
    {<<>>} \cup {<<a>> : a \in AttackIdArgs} \cup {<<a, b>> : a, b \in attack_map}
SignatureMaps ==
    {NoSignatures} \cup UNION {[S -> 1..MaxFreq] : S \in (SUBSET SigNames) \ {{}}}

\* Heuristic(heur_id, attack_id, signature, attack_ids, signatures, frequency)
NewHeuristic ==
    /\ heur.kind = "None"
    /\ \E heur_id \in HeurIds \cup {BadHeurId},
          attack_id \in {None} \cup AttackIdArgs,
          signature \in {None} \cup SigNames,
          attack_ids \in AttackIdLists,
          signatures \in SignatureMaps,
          frequency \in 0..MaxFreq :
        IF heur_id \notin DOMAIN HEUR_LIST
        THEN /\ last' = Call("Heuristic", heur_id, <<attack_id, attack_ids>>,
                              InvalidHeuristicException)
             /\ UNCHANGED heur
        ELSE /\ heur' = HeuristicInit(heur_id, attack_id, signature, attack_ids,
                                      signatures, frequency)
             /\ last' = Call("Heuristic", heur_id, <<attack_id, attack_ids>>, None)
    /\ UNCHANGED <<ncalls, treeVars, taskVars>>

\* Heuristic.add_attack_id(attack_id)
AddAttackId ==
    /\ heur.kind = "Heuristic"
    /\ ncalls < MaxCalls
    /\ \E attack_id \in AttackIdArgs :
        /\ heur' = HeuristicAddAttackId(heur, attack_id)
        /\ last' = Call("add_attack_id", 0, 0, None)
    /\ ncalls' = ncalls + 1
    /\ UNCHANGED <<treeVars, taskVars>>

\* Heuristic.add_signature_id(signature, frequency)
AddSignatureId ==
    /\ heur.kind = "Heuristic"
    /\ ncalls < MaxCalls
    /\ \E signature \in SigNames, frequency \in 1..MaxFreq :
        /\ heur' = HeuristicAddSignatureId(heur, signature, frequency)
        /\ last' = Call("add_signature_id", 0, frequency, None)
    /\ ncalls' = ncalls + 1
    /\ UNCHANGED <<treeVars, taskVars>>

\* Heuristic.increment_frequency(frequency)
IncrementFrequency ==
    /\ heur.kind = "Heuristic"
    /\ ncalls < MaxCalls
    /\ \E frequency \in 1..MaxFreq :
        /\ heur' = HeuristicIncrementFrequency(heur, frequency)
        /\ last' = Call("increment_frequency", 0, frequency, None)
    /\ ncalls' = ncalls + 1
    /\ UNCHANGED <<treeVars, taskVars>>

\* ------------------------------------------------------------------- Task
\* The file system: the directory the service works in (cwd), a directory
\* elsewhere (in) and the working directory (wd), each holding files by
\* name.  A file is [kind, data]: kind "absent", "bytes" (data names the
\* content), "empty", "error_json" or "result_json" (data is the status).
Dirs == {"in", "cwd", "wd"}
FileNames == {"a.bin"}
Contents == {"c1", "c2"}
ResultJson == <<"wd", "result.json">>
FilePaths == (Dirs \X FileNames) \cup {ResultJson}

Absent == [kind |-> "absent", data |-> ""]
Bytes(c) == [kind |-> "bytes", data |-> c]
EmptyFile == [kind |-> "empty", data |-> ""]

\* get_sha256_for_file: the digest of a file's content
Sha256 == [c1 |-> "9f1c", c2 |-> "e3b0"]

\* os.path.join(self._working_directory, name)
WorkingPath(name) == <<"wd", name>>

\* shutil.move(src, dst) of an existing file
MoveFile(files, src, dst) == [files EXCEPT ![dst] = files[src], ![src] = Absent]

\* a `path` argument: absolute ([dir, name]) or a bare file name, which is
\* relative to the current directory
PathArgs ==
    [dir : Dirs, name : FileNames, bare : {FALSE}]
        \cup [dir : {"cwd"}, name : FileNames, bare : {TRUE}]
PathOf(path) == <<path.dir, path.name>>

FileRecord(name, sha256, description, cls) ==
    [name |-> name, sha256 |-> sha256, description |-> description,
     classification |-> cls]

\* The body shared by add_extracted and add_supplementary (lines 49-61 and
\* 67-79): [raised, fs, file].
RelocateAndDescribe(files, wd, path, name, description, cls) ==
    IF wd = None
    THEN [raised |-> TypeError, fs |-> files, file |-> FileRecord(name, "", "", "")]
    ELSE IF path.bare
    THEN \* os.path.dirname(path) = '' does not exist and os.makedirs('') fails
         [raised |-> FileNotFoundError, fs |-> files,
          file |-> FileRecord(name, "", "", "")]
    ELSE LET file_path == WorkingPath(name)
             source == <<"cwd", name>>        \* shutil.move(name, file_path)
             mustMove == files[file_path].kind = "absent"
         IN IF mustMove /\ files[source].kind = "absent"
            THEN [raised |-> FileNotFoundError, fs |-> files,
                  file |-> FileRecord(name, "", "", "")]
            ELSE LET fs1 == IF mustMove THEN MoveFile(files, source, file_path)
                            ELSE files
                 IN IF fs1[PathOf(path)].kind # "bytes"
                    THEN [raised |-> FileNotFoundError, fs |-> fs1,
                          file |-> FileRecord(name, "", "", "")]
                    ELSE [raised |-> None, fs |-> fs1,
                          file |-> FileRecord(name, Sha256[fs1[PathOf(path)].data],
                                              description, cls)]

\* Task.add_extracted(path, name, description, classification)
AddExtracted ==
    /\ Len(extracted) + Len(supplementary) < MaxFiles
    /\ \E path \in PathArgs, name \in FileNames :
        LET r == RelocateAndDescribe(fs, _working_directory, path, name, "desc", "U")
        IN /\ fs' = r.fs
           /\ extracted' = IF r.raised = None THEN Append(extracted, r.file)
                           ELSE extracted
           /\ last' = Call("add_extracted", path, name, r.raised)
    /\ UNCHANGED <<_working_directory, supplementary, error_message, error_status>>
    /\ UNCHANGED <<treeVars, heurVars>>

\* Task.add_supplementary(path, name, description, classification)
AddSupplementary ==
    /\ Len(extracted) + Len(supplementary) < MaxFiles
    /\ \E path \in PathArgs, name \in FileNames :
        LET r == RelocateAndDescribe(fs, _working_directory, path, name, "desc", "U")
        IN /\ fs' = r.fs
           /\ supplementary' = IF r.raised = None THEN Append(supplementary, r.file)
                               ELSE supplementary
           /\ last' = Call("add_supplementary", path, name, r.raised)
    /\ UNCHANGED <<_working_directory, extracted, error_message, error_status>>
    /\ UNCHANGED <<treeVars, heurVars>>

\* Task.working_directory()
WorkingDirectory ==
    /\ _working_directory' = IF _working_directory = None THEN "wd"
                             ELSE _working_directory
    /\ last' = Call("working_directory", 0, 0, None)
    /\ UNCHANGED <<fs, extracted, supplementary, error_message, error_status>>
    /\ UNCHANGED <<treeVars, heurVars>>

\* Task.start(service_version, service_tool_version)
Start ==
    /\ extracted' = <<>>
    /\ supplementary' = <<>>
    /\ last' = Call("start", 0, 0, None)
    /\ UNCHANGED <<_working_directory, fs, error_message, error_status>>
    /\ UNCHANGED <<treeVars, heurVars>>

\* Task.save_error(stack_info, recoverable)
SaveError ==
    /\ \E stack_info \in {"trace1", "trace2"}, recoverable \in BOOLEAN :
        /\ error_message' = stack_info
        /\ error_status' = IF recoverable THEN "FAIL_RECOVERABLE"
                           ELSE "FAIL_NONRECOVERABLE"
        /\ IF _working_directory = None
           THEN \* os.path.join(None, 'result.json')
                /\ last' = Call("save_error", stack_info, recoverable, TypeError)
                /\ UNCHANGED fs
           ELSE \* open(error_path, 'wb') truncates the file; json.dump then
                \* writes str to a binary file
                /\ fs' = [fs EXCEPT ![WorkingPath("result.json")] = EmptyFile]
                /\ last' = Call("save_error", stack_info, recoverable, TypeError)
    /\ UNCHANGED <<_working_directory, extracted, supplementary>>
    /\ UNCHANGED <<treeVars, heurVars>>

\* Task.success(): stamps the completion time and calls save_result()
Success ==
    /\ IF _working_directory = None
       THEN /\ last' = Call("success", 0, 0, TypeError)
            /\ UNCHANGED fs
       ELSE /\ fs' = [fs EXCEPT ![WorkingPath("result.json")] =
                         [kind |-> "result_json", data |-> "result"]]
            /\ last' = Call("success", 0, 0, None)
    /\ UNCHANGED <<_working_directory, extracted, supplementary, error_message,
                   error_status>>
    /\ UNCHANGED <<treeVars, heurVars>>

\* ------------------------------------------------------------ initial state
TreeInit ==
    /\ nsec = 0
    /\ parent = [n \in Nodes |-> NoParent]
    /\ subsections = [n \in Nodes |-> <<>>]
    /\ classification = [n \in Nodes |-> default_result_classification]
    /\ init_classification = [n \in Nodes |-> default_result_classification]
    /\ heuristic = [n \in Nodes |-> NoHeuristic]
    /\ _finalized = [n \in Nodes |-> FALSE]
    /\ depth = [n \in Nodes |-> 0]
    /\ sections = <<>>
    /\ _flattened_sections = <<>>
    /\ _score = 0
    /\ result = [returned |-> FALSE, score |-> 0, sections |-> <<>>]

NoHeur ==
    /\ heur = NoHeuristic
    /\ ncalls = 0

TaskIdle ==
    /\ _working_directory = None
    /\ fs = [p \in FilePaths |-> Absent]
    /\ extracted = <<>>
    /\ supplementary = <<>>
    /\ error_message = None
    /\ error_status = None

\* ------------------------------------------------------- specifications
\* The lifecycle of a report: sections are created and attached while
\* nothing has been finalized yet.
Building == ~result.returned /\ \A n \in Nodes : ~_finalized[n]

StartResult ==
    TreeInit /\ NoHeur /\ TaskIdle /\ last = Call("init", 0, 0, None)

\* Trees of any shape and sibling order, built with the constructor,
\* add_subsection and add_section, then finalized through the Result.
TreeNext ==
    \/ Building /\ NewSection({None}, {NoHeuristic}, AnyParent)
    \/ Building /\ AddSubsection
    \/ Building /\ AddSection
    \/ ResultFinalize
SpecTree == StartResult /\ [][TreeNext]_vars

\* Sections finalized directly and through the Result, at any time.
FinalizeNext ==
    \/ NewSection({None}, {NoHeuristic}, AttachedParent)
    \/ SectionFinalizeCall
    \/ ResultFinalize
SpecFinalize == StartResult /\ [][FinalizeNext]_vars

\* Trees whose sections carry heuristics of the manifest.
ScoreNext ==
    \/ Building /\ NewSection({None},
                  {NoHeuristic} \cup {PlainHeuristic(h) : h \in HeurIds},
                  AttachedParent)
    \/ ResultFinalize
SpecScore == StartResult /\ [][ScoreNext]_vars

\* Trees whose sections carry any classification label.
ClassNext ==
    \/ Building /\ NewSection({None} \cup Labels,
                  {PlainHeuristic(2)},
                  AttachedParent)
    \/ ResultFinalize
SpecClass == StartResult /\ [][ClassNext]_vars

\* Top-level sections and their heuristics.
SetHeurNext ==
    \/ NewSection({None},
                  {NoHeuristic, JunkHeuristic, PlainHeuristic(1)},
                  TopLevelParent)
    \/ SetHeuristic({1, 2, BadHeurId}, {None}, {None, "sigA"})
SpecSetHeur == StartResult /\ [][SetHeurNext]_vars

\* One Heuristic object: construction, then up to MaxCalls calls.
HeurNext ==
    \/ NewHeuristic
    \/ AddAttackId
    \/ AddSignatureId
    \/ IncrementFrequency
SpecHeur == StartResult /\ [][HeurNext]_vars

\* One Task on a file system that holds any files when the task is built.
TaskInit ==
    /\ _working_directory = None
    /\ fs \in {f \in [FilePaths -> {Absent} \cup {Bytes(c) : c \in Contents}] :
                 f[ResultJson] = Absent}
    /\ extracted = <<>>
    /\ supplementary = <<>>
    /\ error_message = None
    /\ error_status = None
TaskNext ==
    \/ WorkingDirectory
    \/ Start
    \/ AddExtracted
    \/ AddSupplementary
    \/ SaveError
    \/ Success
StartTask ==
    TreeInit /\ NoHeur /\ TaskInit /\ last = Call("init", 0, 0, None)
SpecTask == StartTask /\ [][TaskNext]_vars

\* ================================================================ claims
FinalizeReturned == last.op = "Result.finalize" /\ last.raised = None

TitlesOf(flat) == [i \in 1..Len(flat) |-> flat[i].title_text]

\* the example tree: root 1 with children 2 and 3, 3 with grandchild 4
ExampleTree ==
    /\ nsec = 4
    /\ sections = <<1>>
    /\ subsections = [n \in Nodes |->
                        IF n = 1 THEN <<2, 3>> ELSE IF n = 3 THEN <<4>> ELSE <<>>]

\* ---- C1
\* the merge of section c into its parent section failed
MergeFailed(c) ==
    /\ parent[c] \in 1..nsec
    /\ \/ classification[c] \notin ValidLabels
       \/ classification[parent[c]] \notin ValidLabels

\* one root with exactly two childless children, one of which failed the merge
OneOfTwoChildrenFailed ==
    /\ nsec = 3
    /\ sections = <<1>>
    /\ parent[2] = 1
    /\ parent[3] = 1
    /\ MergeFailed(2) # MergeFailed(3)

\* C1: a subsection whose finalize hit a classification-merge failure is
\* left out of what Result.finalize returns: for a root with two children of
\* which exactly one failed the merge, the returned list holds the root and
\* the other child only, and the score counts these two sections only
\* (every section of SpecClass carries heuristic 2).
C1_FailedSubsectionDropped ==
    (FinalizeReturned /\ OneOfTwoChildrenFailed) =>
        /\ Len(result.sections) = 2
        /\ \A c \in {2, 3} :
              MergeFailed(c) =>
                  \A i \in 1..Len(result.sections) : result.sections[i].title_text # c
        /\ result.score = 2 * HEUR_LIST[2].score

\* ---- C2
RECURSIVE PreOrder(_), PreOrderList(_, _)
PreOrder(n) == <<n>> \o PreOrderList(subsections[n], 1)
PreOrderList(list, i) ==
    IF i > Len(list) THEN <<>>
    ELSE PreOrder(list[i]) \o PreOrderList(list, i + 1)

\* C2: the 'sections' list Result.finalize returns is the pre-order
\* traversal of the retained tree: every retained section once, a parent
\* before its subtree, siblings in list order.
C2_FlattenIsPreOrder ==
    FinalizeReturned =>
        /\ TitlesOf(result.sections) = PreOrderList(sections, 1)
        /\ NoDuplicates(TitlesOf(result.sections))
        /\ \A i, j \in 1..Len(result.sections) :
              result.sections[j].title_text
                    \in Descendants(subsections, result.sections[i].title_text)
                  => i < j

\* the example tree flattened, and a tree whose sibling order is not the
\* order of creation
C2_Witness ==
    /\ FinalizeReturned
    /\ nsec = 4
    /\ sections = <<1>>
    /\ subsections[1] = <<3, 2>>
    /\ subsections[2] = <<4>>
    /\ TitlesOf(result.sections) = <<1, 3, 2, 4>>

\* ---- C3
RecordScore(rec) == IF rec.heuristic.kind = "None" THEN 0 ELSE rec.heuristic.score

RECURSIVE SumRecordScores(_)
SumRecordScores(flat) ==
    IF flat = <<>> THEN 0
    ELSE RecordScore(Head(flat)) + SumRecordScores(Tail(flat))

ExampleHeuristics ==
    /\ heuristic[1].kind = "Heuristic" /\ heuristic[1].score = 10
    /\ heuristic[2].kind = "Heuristic" /\ heuristic[2].score = 5
    /\ heuristic[3].kind = "None"
    /\ heuristic[4].kind = "Heuristic" /\ heuristic[4].score = 3

\* C3: the score Result.finalize returns is the sum of the heuristic scores
\* of the records of the returned list (0 for a record without heuristic);
\* the example tree with scores 10, 5, none, 3 gives 18.
C3_ScoreIsSumOfRecords ==
    FinalizeReturned =>
        /\ result.score = SumRecordScores(result.sections)
        /\ (ExampleTree /\ ExampleHeuristics) => result.score = 18

C3_Witness ==
    /\ FinalizeReturned
    /\ ExampleTree
    /\ ExampleHeuristics
    /\ TitlesOf(result.sections) = <<1, 2, 3, 4>>
    /\ result.score = 18

\* ---- C4
\* C4: a finalize() call on a section that is already finalized raises
\* ResultAggregationException and changes nothing, and no step finalizes a
\* finalized section again (its flag stays set, its depth stays).
C4_FinalizeAtMostOnce ==
    [][/\ (last'.op = "ResultSection.finalize" /\ _finalized[last'.target])
            => /\ last'.raised = ResultAggregationException
               /\ UNCHANGED treeVars
       /\ \A n \in Nodes :
            _finalized[n] => _finalized'[n] /\ depth'[n] = depth[n]]_vars

\* a direct finalize() on a subsection that its parent's finalize had
\* already finalized (depth 1), after Result.finalize returned
C4_Witness ==
    /\ last.op = "ResultSection.finalize"
    /\ last.raised = ResultAggregationException
    /\ result.returned
    /\ parent[last.target] \in 1..nsec
    /\ _finalized[last.target]
    /\ depth[last.target] = 1

\* ---- C5
\* C5 as stated: set_heuristic on a section that has a heuristic raises
\* InvalidHeuristicException and leaves the heuristic alone, and of two
\* set_heuristic calls in a row on one section the second always raises.
C5_SecondCallAlwaysFails ==
    [][/\ (last'.op = "set_heuristic" /\ heuristic[last'.target].kind = "Heuristic")
            => /\ last'.raised = InvalidHeuristicException
               /\ heuristic' = heuristic
       /\ (last.op = "set_heuristic" /\ last'.op = "set_heuristic"
              /\ last'.target = last.target)
            => last'.raised = InvalidHeuristicException]_vars

\* C5 amended: set_heuristic on a section that has a heuristic (from the
\* constructor or an earlier set_heuristic) raises InvalidHeuristicException
\* and leaves the heuristic alone; no step replaces or removes a section's
\* heuristic; a set_heuristic that follows a set_heuristic that succeeded on
\* the same section raises.
C5_HeuristicSetOnce ==
    [][/\ (last'.op = "set_heuristic" /\ heuristic[last'.target].kind = "Heuristic")
            => /\ last'.raised = InvalidHeuristicException
               /\ heuristic' = heuristic
       /\ \A n \in Nodes :
            heuristic[n].kind = "Heuristic" => heuristic'[n] = heuristic[n]
       /\ (last.op = "set_heuristic" /\ last.raised = None
              /\ last'.op = "set_heuristic" /\ last'.target = last.target)
            => last'.raised = InvalidHeuristicException]_vars

\* set_heuristic with a heur_id of the manifest refused on a section that
\* holds a heuristic with another id
C5_Witness ==
    /\ last.op = "set_heuristic"
    /\ last.raised = InvalidHeuristicException
    /\ last.arg \in HeurIds
    /\ heuristic[last.target].kind = "Heuristic"
    /\ heuristic[last.target].heur_id # last.arg

\* ---- C6
\* no merge of a section into its parent section failed (a label never
\* turns from valid to invalid or back, so the labels after finalize tell)
NoMergeFailed == \A c \in 1..nsec : ~MergeFailed(c)

\* the highest of the labels given to n and its descendants
SubtreeMax(n) ==
    LET S == {init_classification[m] : m \in {n} \cup Descendants(subsections, n)}
    IN IF S = {init_classification[n]} THEN init_classification[n]
       ELSE CHOOSE x \in S \cap ValidLabels :
                \A y \in S \cap ValidLabels : LevelOf[x] >= LevelOf[y]

\* C6: after a Result.finalize in which no merge failed, the classification
\* of every section is the maximum of the labels given to it and to its
\* descendants, each record carries that classification, and a record's
\* classification is at least as high as that of every record of its subtree.
C6_ClassificationPropagatesUp ==
    (FinalizeReturned /\ NoMergeFailed) =>
        /\ \A n \in 1..nsec : classification[n] = SubtreeMax(n)
        /\ \A i \in 1..Len(result.sections) :
              result.sections[i].classification
                  = classification[result.sections[i].title_text]
        /\ \A i, j \in 1..Len(result.sections) :
              result.sections[j].title_text
                    \in Descendants(subsections, result.sections[i].title_text)
                  => ClassGeq(result.sections[i].classification,
                              result.sections[j].classification)

\* a grandchild's "R" raised its "U" parent and "U" grandparent, next to a
\* sibling that stayed "U"
C6_Witness ==
    /\ FinalizeReturned
    /\ NoMergeFailed
    /\ ExampleTree
    /\ init_classification = [n \in Nodes |-> IF n = 4 THEN "R" ELSE "U"]
    /\ classification = [n \in Nodes |-> IF n = 2 THEN "U" ELSE "R"]

\* ---- C7
\* C7: the attack_ids of a Heuristic hold only identifiers of the catalog
\* and hold none of them twice.
C7_AttackIdsValidAndUnique ==
    heur.kind = "Heuristic" =>
        /\ \A i \in 1..Len(heur.attack_ids) : heur.attack_ids[i] \in attack_map
        /\ NoDuplicates(heur.attack_ids)

\* ---- C8
\* C8: after save_error(message, recoverable) the status is FAIL_RECOVERABLE
\* or FAIL_NONRECOVERABLE according to `recoverable`, the message is
\* recorded, and the serialized error record is at
\* <working_directory>/result.json.
C8_SaveErrorWritesRecord ==
    last.op = "save_error" =>
        /\ error_status = (IF last.arg THEN "FAIL_RECOVERABLE"
                           ELSE "FAIL_NONRECOVERABLE")
        /\ error_message = last.target
        /\ fs[ResultJson].kind = "error_json"
        /\ fs[ResultJson].data = error_status

\* ---- C9
\* what a successful add of the file at `path` under `name` must leave
Relocated(path, name, list, other) ==
    /\ fs[PathOf(path)].kind = "bytes"
    /\ fs'[WorkingPath(name)] =
          (IF fs[WorkingPath(name)].kind = "absent" THEN fs[PathOf(path)]
           ELSE fs[WorkingPath(name)])
    /\ list' = Append(list, FileRecord(name, Sha256[fs[PathOf(path)].data],
                                       "desc", "U"))
    /\ other' = other

\* C9: when add_extracted(path, name, ...) succeeds, the file that was at
\* `path` is at <working_directory>/name (moved there unless a file was
\* there already), one record with that file's hash is appended to
\* `extracted` and `supplementary` is unchanged; add_supplementary likewise
\* with the lists swapped.
C9_AddRelocatesAndRecords ==
    [][/\ (last'.op = "add_extracted" /\ last'.raised = None)
            => Relocated(last'.target, last'.arg, extracted, supplementary)
       /\ (last'.op = "add_supplementary" /\ last'.raised = None)
            => Relocated(last'.target, last'.arg, supplementary, extracted)]_vars

\* ---- C10
\* the score recomputed from the Heuristic's current state
RecomputedScore(h) ==
    LET definition == HEUR_LIST[h.heur_id]
        per == [s \in DOMAIN h.signatures |->
                   (IF s \in DOMAIN definition.signature_score_map
                    THEN definition.signature_score_map[s]
                    ELSE definition.score) * h.signatures[s]]
    IN definition.score * h.frequency + SetSum(per, DOMAIN h.signatures)

\* C10: a Heuristic's running score equals base_score * frequency plus, for
\* each signature, (its override if the manifest has one, base_score
\* otherwise) * its count.
C10_ScoreMatchesRecomputation ==
    heur.kind = "Heuristic" => heur.score = RecomputedScore(heur)

\* a Heuristic with an overridden and a plain signature and a frequency,
\* reached through add_signature_id and increment_frequency
C10_Witness ==
    /\ heur.kind = "Heuristic"
    /\ heur.heur_id = 1
    /\ DOMAIN heur.signatures = {"sigA", "sigB"}
    /\ heur.frequency > 0
    /\ ncalls >= 2
    /\ heur.score = RecomputedScore(heur)

\* ---- C11
\* the record of section n in a flat list
RecordOf(flat, n) == flat[CHOOSE i \in 1..Len(flat) : flat[i].title_text = n]

\* C11: in what Result.finalize returns, the record of a top-level section
\* has depth 0 and the record of a subsection has the depth of its parent's
\* record plus 1; in the flat list the first record has depth 0 and every
\* other record's depth is at most the depth of the record before it plus 1.
C11_DepthFollowsTree ==
    FinalizeReturned =>
        /\ \A i \in 1..Len(result.sections) :
              LET n == result.sections[i].title_text
              IN IF InList(n, sections)
                 THEN result.sections[i].depth = 0
                 ELSE /\ parent[n] \in 1..nsec
                      /\ result.sections[i].depth
                            = RecordOf(result.sections, parent[n]).depth + 1
        /\ Len(result.sections) > 0 => result.sections[1].depth = 0
        /\ \A i \in 2..Len(result.sections) :
              result.sections[i].depth <= result.sections[i - 1].depth + 1

\* a chain three sections deep next to a second top-level section: the
\* depths climb to 2 and fall back to 0
C11_Witness ==
    /\ FinalizeReturned
    /\ nsec = 4
    /\ TitlesOf(result.sections) = <<1, 2, 3, 4>>
    /\ [i \in 1..4 |-> result.sections[i].depth] = <<0, 1, 2, 0>>

====
